---- MODULE Spec2Model ----
(***************************************************************************)
(* Model of the in-process publish/subscribe broker of                    *)
(* src/message_broker.cpp: class Subscriber (a queue behind queueMutex)   *)
(* and class MessageBroker (subscriptions and messageHistory behind       *)
(* brokerMutex).  Threads call the public operations concurrently.  A     *)
(* step of a thread runs from one point where another thread can see or   *)
(* block it (a lock taken, a mutation of a queue, a lock released) to the *)
(* next.                                                                   *)
(***************************************************************************)
EXTENDS Integers, Sequences, FiniteSets, TLC

VARIABLES subscriptions, messageHistory, messageQueue, brokerMutex, queueMutex,
          now, coarse, nMsg, nSub, pc, op, msg, idx, ret, pre, lastRead

vars == <<subscriptions, messageHistory, messageQueue, brokerMutex, queueMutex,
          now, coarse, nMsg, nSub, pc, op, msg, idx, ret, pre, lastRead>>

-----------------------------------------------------------------------------
(* Bounds of the model. *)

MaxCalls == 4
MaxLimit == 2

(* The host's threads and the endpoints it created: they are fixed when   *)
(* the program starts and are read off the state.                          *)
Threads == DOMAIN pc
Endpoints == DOMAIN messageQueue
Topics == {"sports", "tech"}
(* The payload is opaque to the broker: it is copied, never inspected. *)
Contents == {"A"}
Limits == (-1)..MaxLimit

(* Subscriber::getId of the endpoints the host created. *)
getId(e) == CASE e = 1 -> "user1" [] e = 2 -> "user2" [] OTHER -> "user3"

SubscriberIds == {getId(e) : e \in Endpoints}

(* A mutex is free (NoThread) or owned by one thread. *)
NoThread == 0

NoOp == [name |-> "none"]
NoMsg == [topic |-> "", content |-> "", timestamp |-> -1, uid |-> 0]
NoRet == [status |-> "none"]
NoPre == [taken |-> FALSE]

(* What a caller keeps of its last getHistory: nothing when the caller     *)
(* does not keep results, nothing yet, or the call and its outcome.        *)
NotKept == [kind |-> "notkept"]
NoRead == [kind |-> "none"]
Read(T, k, r) == [kind |-> "read", topic |-> T, limit |-> k, result |-> r]

-----------------------------------------------------------------------------
(* Containers. *)

Max(a, b) == IF a >= b THEN a ELSE b

Min(a, b) == IF a <= b THEN a ELSE b

(* map::find(k) != map::end() *)
Found(m, k) == k \in DOMAIN m

(* map::operator[]: inserts a default-constructed (empty) vector when absent. *)
Index(m, k) == IF k \in DOMAIN m THEN m ELSE m @@ (k :> <<>>)

(* m[k].push_back(v) *)
PushBack(m, k, v) == [Index(m, k) EXCEPT ![k] = Append(@, v)]

(* What a lookup of a topic would iterate over: the list, or nothing. *)
ListOf(m, k) == IF k \in DOMAIN m THEN m[k] ELSE <<>>

(* Number of entries of s equal to x. *)
Count(s, x) == Cardinality({i \in 1..Len(s) : s[i] = x})

(* x repeated n times. *)
Copies(x, n) == [i \in 1..n |-> x]

IsPrefix(s, t) == Len(s) <= Len(t) /\ SubSeq(t, 1, Len(s)) = s

-----------------------------------------------------------------------------
(* Threads ts, a broker with no history and endpoints es with empty queues, *)
(* every thread outside any call.                                          *)
Constructed(ts, es) ==
    /\ messageHistory = << >>
    /\ messageQueue = [e \in es |-> <<>>]
    /\ brokerMutex = NoThread
    /\ queueMutex = [e \in es |-> NoThread]
    /\ now = 0
    /\ nMsg = 0
    /\ pc = [t \in ts |-> "idle"]
    /\ op = [t \in ts |-> NoOp]
    /\ msg = [t \in ts |-> NoMsg]
    /\ idx = [t \in ts |-> 0]
    /\ ret = [t \in ts |-> NoRet]
    /\ pre = [t \in ts |-> NoPre]

(* A host with threads ts that has constructed a broker and endpoints es:  *)
(* the registry is empty too.                                              *)
Host(ts, es) ==
    /\ Constructed(ts, es)
    /\ subscriptions = << >>
    /\ nSub = 0

(* Two threads and two endpoints. *)
Fresh == Host({1, 2}, {1, 2})

(* Init: the fresh program on a host whose clock is fine enough for every  *)
(* reading to differ from the one before.                                  *)
Init == Fresh /\ coarse = FALSE /\ lastRead = [t \in Threads |-> NotKept]

-----------------------------------------------------------------------------
(* Locks: std::lock_guard<std::mutex> blocks until the mutex is free. *)

(* CanLock of a lock that never makes its caller wait. *)
CanLockAlways(m) == TRUE

CanLock(m) == m = NoThread

(* A Message that keeps only the low bit of the clock reading. *)
MessageTruncated(t, c, clock, id) ==
    [topic |-> t, content |-> c, timestamp |-> clock % 2, uid |-> id]

(* Message::Message(t, c): the timestamp is the clock reading taken in the  *)
(* constructor.  uid is an auxiliary field naming the constructed object,   *)
(* so that its copies in the history and in the queues can be told apart   *)
(* from those of an equal-looking message of another publish.              *)
Message(t, c, clock, id) ==
    [topic |-> t, content |-> c, timestamp |-> clock, uid |-> id]

(* Readings of chrono::system_clock::now() a constructor can get: later    *)
(* than the last one, or equal to it when the clock is coarse.             *)
ClockReads == IF coarse THEN {now, now + 1} ELSE {now + 1}

(* The operations a thread may start, with their arguments. *)
PublishCalls == [name : {"publish"}, topic : Topics, content : Contents]

SubscribeCalls == [name : {"subscribe"}, topic : Topics, subscriber : Endpoints]

UnsubscribeCalls == [name : {"unsubscribe"}, topic : Topics, subscriberId : SubscriberIds]

GetHistoryCalls == [name : {"getHistory"}, topic : Topics, limit : Limits]

PrintStatsCalls == [name : {"printStats"}]

GetQueueSizeCalls == [name : {"getQueueSize"}, subscriber : Endpoints]

(* The bound of the model: nothing ever shrinks a history or a queue, so   *)
(* the calls that make the state grow (publish and subscribe) are counted  *)
(* and capped together.                                                     *)
WithinBounds(c) ==
    c.name \in {"publish", "subscribe"} => nMsg + nSub < MaxCalls

(* Broker and queue state as a thread finds it when it gets the broker lock. *)
Snapshot ==
    [taken |-> TRUE, subscriptions |-> subscriptions,
     messageHistory |-> messageHistory, messageQueue |-> messageQueue]

-----------------------------------------------------------------------------
(* A thread calls a broker operation and arrives at its lock_guard.  The  *)
(* arguments are local to the caller until the lock is held, so they are   *)
(* drawn when the operation gets the lock.                                 *)
CallBroker(t) ==
    /\ pc[t] = "idle"
    /\ pc' = [pc EXCEPT ![t] = "lock"]
    /\ UNCHANGED <<lastRead, subscriptions, messageHistory, messageQueue, brokerMutex,
                   queueMutex, now, coarse, nMsg, nSub, op, msg, idx, ret, pre>>

(* AcquireBroker entering without waiting for the broker lock. *)
AcquireBrokerUnlocked(t, c) ==
    /\ pc[t] = "lock"
    /\ WithinBounds(c)
    /\ brokerMutex' = t
    /\ op' = [op EXCEPT ![t] = c]
    /\ pre' = [pre EXCEPT ![t] = Snapshot]

(* lock_guard<mutex> lock(brokerMutex), the first statement of every      *)
(* broker operation: thread t enters call c.  What the operation does     *)
(* before anything of it can be seen from outside is part of the same     *)
(* step.                                                                   *)
AcquireBroker(t, c) ==
    /\ pc[t] = "lock"
    /\ CanLock(brokerMutex)
    /\ WithinBounds(c)
    /\ brokerMutex' = t
    /\ op' = [op EXCEPT ![t] = c]
    /\ pre' = [pre EXCEPT ![t] = Snapshot]

(* The caller of a getHistory that has returned keeps the call and its     *)
(* outcome, if it keeps results at all.                                    *)
Remember(reads, t, c, r) ==
    IF c.name = "getHistory" /\ reads[t] # NotKept
    THEN [reads EXCEPT ![t] = Read(c.topic, c.limit, r)]
    ELSE reads

(* A publish to topic T has taken effect: a kept outcome of a getHistory   *)
(* of T is no longer the outcome of the latest call on an unchanged T.     *)
Forget(reads, T) ==
    [u \in DOMAIN reads |->
        IF reads[u].kind = "read" /\ reads[u].topic = T THEN NoRead ELSE reads[u]]

(* ~lock_guard at the end of a broker operation, and the return to the caller. *)
ReleaseBroker(t) ==
    /\ pc[t] = "unlock"
    /\ brokerMutex' = NoThread
    /\ pc' = [pc EXCEPT ![t] = "idle"]
    /\ op' = [op EXCEPT ![t] = NoOp]
    /\ msg' = [msg EXCEPT ![t] = NoMsg]
    /\ idx' = [idx EXCEPT ![t] = 0]
    /\ ret' = [ret EXCEPT ![t] = NoRet]
    /\ pre' = [pre EXCEPT ![t] = NoPre]
    /\ lastRead' = Remember(lastRead, t, op[t], ret[t])
    /\ UNCHANGED <<subscriptions, messageHistory, messageQueue, queueMutex,
                   now, coarse, nMsg, nSub>>

-----------------------------------------------------------------------------
(* publish *)

(* lock_guard; Message msg(topic, content) *)
PublishConstruct(t) ==
    /\ \E c \in PublishCalls, r \in ClockReads :
          /\ AcquireBroker(t, c)
          /\ now' = r
          /\ msg' = [msg EXCEPT ![t] = Message(c.topic, c.content, r, nMsg + 1)]
    /\ nMsg' = nMsg + 1
    /\ pc' = [pc EXCEPT ![t] = "pub_store"]
    /\ UNCHANGED <<lastRead, subscriptions, messageHistory, messageQueue, queueMutex,
                   coarse, nSub, idx, ret>>

(* StoreInHistory moved inside the branch that found subscribers. *)
StoreIfSubscribed(history, m) ==
    IF Found(subscriptions, m.topic) /\ Len(subscriptions[m.topic]) > 0
    THEN PushBack(history, m.topic, m)
    ELSE history

(* StoreInHistory inserting at the front of the topic's history. *)
StoreAtFront(history, m) ==
    [Index(history, m.topic) EXCEPT ![m.topic] = <<m>> \o @]

(* messageHistory[topic].push_back(msg) *)
StoreInHistory(history, m) == PushBack(history, m.topic, m)

(* What publish reports when its loop is over: the size of the list, or   *)
(* that no subscribers were found.                                         *)
Notified(subs, T) ==
    IF Found(subs, T)
    THEN [status |-> "ok", notified |-> Len(subs[T])]
    ELSE [status |-> "ok", notified |-> 0]

(* HasNext with the loop stopping one entry early. *)
HasNextShort(subs, T, i) == Found(subs, T) /\ i < Len(subs[T])

(* The range-for of publish has an entry at position i to visit. *)
HasNext(subs, T, i) == Found(subs, T) /\ i <= Len(subs[T])

(* messageHistory[topic].push_back(msg);                                   *)
(* if (subscriptions.find(topic) != end) for (auto& subscriber : ...)      *)
PublishStore(t) ==
    /\ pc[t] = "pub_store"
    /\ messageHistory' = StoreInHistory(messageHistory, msg[t])
    /\ lastRead' = Forget(lastRead, msg[t].topic)
    /\ idx' = [idx EXCEPT ![t] = 1]
    /\ IF HasNext(subscriptions, op[t].topic, 1)
       THEN /\ pc' = [pc EXCEPT ![t] = "recv_lock"]
            /\ ret' = ret
       ELSE /\ pc' = [pc EXCEPT ![t] = "unlock"]
            /\ ret' = [ret EXCEPT ![t] = Notified(subscriptions, op[t].topic)]
    /\ UNCHANGED <<subscriptions, messageQueue, brokerMutex, queueMutex,
                   now, coarse, nMsg, nSub, op, msg, pre>>

(* The endpoint the loop of thread t is delivering to. *)
Target(t) == subscriptions[op[t].topic][idx[t]]

(* receiveMessage: lock_guard<mutex> lock(queueMutex) *)
ReceiveLock(t) ==
    /\ pc[t] = "recv_lock"
    /\ HasNext(subscriptions, op[t].topic, idx[t])
    /\ CanLock(queueMutex[Target(t)])
    /\ queueMutex' = [queueMutex EXCEPT ![Target(t)] = t]
    /\ pc' = [pc EXCEPT ![t] = "recv_push"]
    /\ UNCHANGED <<lastRead, subscriptions, messageHistory, messageQueue, brokerMutex,
                   now, coarse, nMsg, nSub, op, msg, idx, ret, pre>>

(* QueuePush handing over the front of the topic's history, not msg. *)
QueuePushStale(q, m) == Append(q, messageHistory[m.topic][1])

(* QueuePush putting the message at the front of the queue. *)
QueuePushFront(q, m) == <<m>> \o q

(* receiveMessage: messageQueue.push(msg) *)
QueuePush(q, m) == Append(q, m)

ReceivePush(t) ==
    /\ pc[t] = "recv_push"
    /\ HasNext(subscriptions, op[t].topic, idx[t])
    /\ messageQueue' = [messageQueue EXCEPT ![Target(t)] = QueuePush(@, msg[t])]
    /\ pc' = [pc EXCEPT ![t] = "recv_unlock"]
    /\ UNCHANGED <<lastRead, subscriptions, messageHistory, brokerMutex, queueMutex,
                   now, coarse, nMsg, nSub, op, msg, idx, ret, pre>>

(* receiveMessage returns (~lock_guard) and the loop moves to the next entry. *)
ReceiveUnlock(t) ==
    /\ pc[t] = "recv_unlock"
    /\ HasNext(subscriptions, op[t].topic, idx[t])
    /\ queueMutex' = [queueMutex EXCEPT ![Target(t)] = NoThread]
    /\ idx' = [idx EXCEPT ![t] = @ + 1]
    /\ IF HasNext(subscriptions, op[t].topic, idx[t] + 1)
       THEN /\ pc' = [pc EXCEPT ![t] = "recv_lock"]
            /\ ret' = ret
       ELSE /\ pc' = [pc EXCEPT ![t] = "unlock"]
            /\ ret' = [ret EXCEPT ![t] = Notified(subscriptions, op[t].topic)]
    /\ UNCHANGED <<lastRead, subscriptions, messageHistory, messageQueue, brokerMutex,
                   now, coarse, nMsg, nSub, op, msg, pre>>

-----------------------------------------------------------------------------
(* subscribe *)

(* A registration that skips an endpoint already in the topic's list. *)
RegisterOnce(subs, T, e) ==
    IF \E i \in 1..Len(ListOf(subs, T)) : ListOf(subs, T)[i] = e
    THEN Index(subs, T)
    ELSE PushBack(subs, T, e)

(* subscriptions[topic].push_back(subscriber) *)
Register(subs, T, e) == PushBack(subs, T, e)

(* lock_guard; push_back *)
SubscribePush(t) ==
    /\ \E c \in SubscribeCalls :
          /\ AcquireBroker(t, c)
          /\ subscriptions' = Register(subscriptions, c.topic, c.subscriber)
    /\ nSub' = nSub + 1
    /\ ret' = [ret EXCEPT ![t] = [status |-> "ok"]]
    /\ pc' = [pc EXCEPT ![t] = "unlock"]
    /\ UNCHANGED <<lastRead, messageHistory, messageQueue, queueMutex, now, coarse, nMsg, msg, idx>>

-----------------------------------------------------------------------------
(* unsubscribe *)

(* EraseMatching erasing the first match only (find_if and a single erase). *)
EraseFirst(subs, id) ==
    LET hits == {i \in 1..Len(subs) : getId(subs[i]) = id}
        k == CHOOSE i \in hits : \A j \in hits : i <= j
    IN  IF hits = {}
        THEN subs
        ELSE SubSeq(subs, 1, k - 1) \o SubSeq(subs, k + 1, Len(subs))

(* A removal that leaves the remaining entries in reverse order. *)
EraseUnstable(subs, id) ==
    LET Keep(e) == getId(e) # id
        kept == SelectSeq(subs, Keep)
    IN  [i \in 1..Len(kept) |-> kept[Len(kept) + 1 - i]]

(* subs.erase(remove_if(subs.begin(), subs.end(), id matches), subs.end()) *)
EraseMatching(subs, id) ==
    LET Keep(e) == getId(e) # id
    IN  SelectSeq(subs, Keep)

(* Unregister reaching the list through operator[], without the find. *)
UnregisterIndex(subs, T, id) == [Index(subs, T) EXCEPT ![T] = EraseMatching(@, id)]

(* Unregister erasing the id's entries from the list of every topic. *)
UnregisterAll(subs, T, id) == [k \in DOMAIN subs |-> EraseMatching(subs[k], id)]

(* Unregister erasing the topic's registry entry when its list gets empty. *)
UnregisterDrop(subs, T, id) ==
    IF Found(subs, T) /\ EraseMatching(subs[T], id) = <<>>
    THEN [k \in DOMAIN subs \ {T} |-> subs[k]]
    ELSE IF Found(subs, T)
         THEN [subs EXCEPT ![T] = EraseMatching(@, id)]
         ELSE subs

(* if (subscriptions.find(topic) != end) { erase ... } *)
Unregister(subs, T, id) ==
    IF Found(subs, T)
    THEN [subs EXCEPT ![T] = EraseMatching(@, id)]
    ELSE subs

(* lock_guard; find; erase *)
UnsubscribeErase(t) ==
    /\ \E c \in UnsubscribeCalls :
          /\ AcquireBroker(t, c)
          /\ subscriptions' = Unregister(subscriptions, c.topic, c.subscriberId)
    /\ ret' = [ret EXCEPT ![t] = [status |-> "ok"]]
    /\ pc' = [pc EXCEPT ![t] = "unlock"]
    /\ UNCHANGED <<lastRead, messageHistory, messageQueue, queueMutex, now, coarse, nMsg, nSub,
                   msg, idx>>

-----------------------------------------------------------------------------
(* getHistory *)

(* int start = max(0, (int)history.size() - limit) *)
Start(history, limit) == Max(0, Len(history) - limit)

(* Slice taking the range from the front of the history, not from start. *)
SliceFront(history, start) == SubSeq(history, 1, Len(history) - start)

(* vector<Message>(history.begin() + start, history.end()) *)
Slice(history, start) == SubSeq(history, start + 1, Len(history))

Returned(v) == [status |-> "ok", value |-> v]

Thrown(e) == [status |-> e]

(* What a call of getHistory can end with.  With start > size (a negative  *)
(* limit on a topic that has a history) history.begin() + start is past    *)
(* the end and the range handed to the vector constructor is reversed:     *)
(* undefined behaviour, which the standard libraries turn into a           *)
(* std::length_error or into an empty result.                              *)
GetHistoryOutcomes(hist, T, limit) ==
    IF ~Found(hist, T)
    THEN {Returned(<<>>)}
    ELSE IF Start(hist[T], limit) <= Len(hist[T])
         THEN {Returned(Slice(hist[T], Start(hist[T], limit)))}
         ELSE {Thrown("length_error"), Returned(<<>>)}

(* lock_guard; find; slice *)
GetHistorySlice(t) ==
    /\ \E c \in GetHistoryCalls :
          /\ AcquireBroker(t, c)
          /\ \E r \in GetHistoryOutcomes(messageHistory, c.topic, c.limit) :
                ret' = [ret EXCEPT ![t] = r]
    /\ pc' = [pc EXCEPT ![t] = "unlock"]
    /\ UNCHANGED <<lastRead, subscriptions, messageHistory, messageQueue, queueMutex,
                   now, coarse, nMsg, nSub, msg, idx>>

-----------------------------------------------------------------------------
(* printStats *)

(* What printStats writes: the number of registry keys and each list's size. *)
Stats(subs) ==
    [status |-> "ok",
     topics |-> Cardinality(DOMAIN subs),
     sizes |-> [T \in DOMAIN subs |-> Len(subs[T])]]

(* lock_guard; the report *)
PrintStats(t) ==
    /\ \E c \in PrintStatsCalls : AcquireBroker(t, c)
    /\ ret' = [ret EXCEPT ![t] = Stats(subscriptions)]
    /\ pc' = [pc EXCEPT ![t] = "unlock"]
    /\ UNCHANGED <<lastRead, subscriptions, messageHistory, messageQueue, queueMutex,
                   now, coarse, nMsg, nSub, msg, idx>>

-----------------------------------------------------------------------------
(* Subscriber::getQueueSize, called by the host on an endpoint it owns. *)

CallQueueSize(t) ==
    /\ pc[t] = "idle"
    /\ pc' = [pc EXCEPT ![t] = "qs_lock"]
    /\ UNCHANGED <<lastRead, subscriptions, messageHistory, messageQueue, brokerMutex,
                   queueMutex, now, coarse, nMsg, nSub, op, msg, idx, ret, pre>>

(* QueueSizeRead reading the size without waiting for the queue lock. *)
QueueSizeReadUnlocked(t) ==
    /\ pc[t] = "qs_lock"
    /\ \E c \in GetQueueSizeCalls :
          /\ queueMutex' = [queueMutex EXCEPT ![c.subscriber] = t]
          /\ op' = [op EXCEPT ![t] = c]
          /\ ret' = [ret EXCEPT ![t] = Returned(Len(messageQueue[c.subscriber]))]
    /\ pc' = [pc EXCEPT ![t] = "qs_unlock"]
    /\ UNCHANGED <<lastRead, subscriptions, messageHistory, messageQueue, brokerMutex,
                   now, coarse, nMsg, nSub, msg, idx, pre>>

(* lock_guard<mutex> lock(queueMutex); return messageQueue.size() *)
QueueSizeRead(t) ==
    /\ pc[t] = "qs_lock"
    /\ \E c \in GetQueueSizeCalls :
          /\ CanLock(queueMutex[c.subscriber])
          /\ queueMutex' = [queueMutex EXCEPT ![c.subscriber] = t]
          /\ op' = [op EXCEPT ![t] = c]
          /\ ret' = [ret EXCEPT ![t] = Returned(Len(messageQueue[c.subscriber]))]
    /\ pc' = [pc EXCEPT ![t] = "qs_unlock"]
    /\ UNCHANGED <<lastRead, subscriptions, messageHistory, messageQueue, brokerMutex,
                   now, coarse, nMsg, nSub, msg, idx, pre>>

(* QueueSizeUnlock needing the broker lock, with the queue lock held,     *)
(* before it returns.                                                      *)
QueueSizeUnlockViaBroker(t) ==
    /\ pc[t] = "qs_unlock"
    /\ CanLock(brokerMutex)
    /\ queueMutex' = [queueMutex EXCEPT ![op[t].subscriber] = NoThread]
    /\ pc' = [pc EXCEPT ![t] = "idle"]
    /\ op' = [op EXCEPT ![t] = NoOp]
    /\ ret' = [ret EXCEPT ![t] = NoRet]
    /\ UNCHANGED <<lastRead, subscriptions, messageHistory, messageQueue, brokerMutex,
                   now, coarse, nMsg, nSub, msg, idx, pre>>

(* ~lock_guard and the return to the caller. *)
QueueSizeUnlock(t) ==
    /\ pc[t] = "qs_unlock"
    /\ queueMutex' = [queueMutex EXCEPT ![op[t].subscriber] = NoThread]
    /\ pc' = [pc EXCEPT ![t] = "idle"]
    /\ op' = [op EXCEPT ![t] = NoOp]
    /\ ret' = [ret EXCEPT ![t] = NoRet]
    /\ UNCHANGED <<lastRead, subscriptions, messageHistory, messageQueue, brokerMutex,
                   now, coarse, nMsg, nSub, msg, idx, pre>>

-----------------------------------------------------------------------------
Next ==
    \E t \in Threads :
        \/ CallBroker(t)
        \/ ReleaseBroker(t)
        \/ PublishConstruct(t)
        \/ PublishStore(t)
        \/ ReceiveLock(t)
        \/ ReceivePush(t)
        \/ ReceiveUnlock(t)
        \/ SubscribePush(t)
        \/ UnsubscribeErase(t)
        \/ GetHistorySlice(t)
        \/ PrintStats(t)
        \/ CallQueueSize(t)
        \/ QueueSizeRead(t)
        \/ QueueSizeUnlock(t)

Spec == Init /\ [][Next]_vars

(* One caller and the three endpoints of main. *)
InitOrder ==
    Host({1}, {1, 2, 3}) /\ coarse = FALSE /\ lastRead = [t \in Threads |-> NotKept]

SpecOrder == InitOrder /\ [][Next]_vars

(* Two threads and one endpoint; thread 1 keeps what its getHistory calls  *)
(* return.                                                                 *)
InitRead ==
    /\ Host({1, 2}, {1})
    /\ coarse = FALSE
    /\ lastRead = [t \in Threads |-> IF t = 1 THEN NoRead ELSE NotKept]

SpecRead == InitRead /\ [][Next]_vars

(* Two threads and one endpoint, which main has subscribed to "sports"      *)
(* before the threads make their calls.  The threads are scheduled fairly:  *)
(* a thread that can take a step that needs no lock takes it, and a thread  *)
(* waiting for a lock that is free again and again gets it.                 *)
InitFair ==
    /\ Constructed({1, 2}, {1})
    /\ subscriptions = [T \in {"sports"} |-> <<1>>]
    /\ nSub = 1
    /\ coarse = FALSE
    /\ lastRead = [t \in Threads |-> NotKept]

Running(t) ==
    \/ ReleaseBroker(t)
    \/ PublishStore(t)
    \/ ReceivePush(t)
    \/ ReceiveUnlock(t)
    \/ QueueSizeUnlock(t)

Acquiring(t) ==
    \/ PublishConstruct(t)
    \/ SubscribePush(t)
    \/ UnsubscribeErase(t)
    \/ GetHistorySlice(t)
    \/ PrintStats(t)
    \/ ReceiveLock(t)
    \/ QueueSizeRead(t)

Fairness == \A t \in {1, 2} : WF_vars(Running(t)) /\ SF_vars(Acquiring(t))

SpecFair == InitFair /\ [][Next]_vars /\ Fairness

(* Two threads and one endpoint on a host whose clock is coarse: a reading  *)
(* can equal the one before, and is never less.                             *)
InitClock ==
    Host({1, 2}, {1}) /\ coarse = TRUE /\ lastRead = [t \in Threads |-> NotKept]

SpecClock == InitClock /\ [][Next]_vars

-----------------------------------------------------------------------------
(* Properties.  A broker operation of thread t is over, with the lock still *)
(* held and the return still to come, when pc[t] = "unlock"; pre[t] is the  *)
(* state it found when it took the lock.                                    *)

Done(t, name) == pc[t] = "unlock" /\ op[t].name = name

(* Number of entries of topic T's subscriber list that are endpoint e. *)
Entries(subs, T, e) == Count(ListOf(subs, T), e)

(* Number of entries of topic T's subscriber list whose id is id. *)
EntriesWithId(subs, T, id) ==
    Cardinality({i \in 1..Len(ListOf(subs, T)) : getId(ListOf(subs, T)[i]) = id})

(* The endpoints registered on topic T. *)
Registered(subs, T) == {ListOf(subs, T)[i] : i \in 1..Len(ListOf(subs, T))}

(* C1 as stated: when a publish is over, every endpoint registered on the  *)
(* topic at the instant of the publish holds exactly one copy of the       *)
(* message and every other endpoint holds none.                            *)
C1_ExactlyOneCopy ==
    \A t \in Threads :
        Done(t, "publish") =>
            \A e \in Endpoints :
                Count(messageQueue[e], msg[t]) =
                    IF e \in Registered(pre[t].subscriptions, op[t].topic)
                    THEN 1 ELSE 0

(* C1 amended: when a publish is over, every endpoint holds one copy of    *)
(* the message per entry it had in the topic's subscriber list at the      *)
(* instant of the publish: one when registered once, none when not         *)
(* registered.                                                              *)
C1_OneCopyPerEntry ==
    \A t \in Threads :
        Done(t, "publish") =>
            \A e \in Endpoints :
                Count(messageQueue[e], msg[t]) =
                    Entries(pre[t].subscriptions, op[t].topic, e)

(* A publish is over on a topic where one endpoint was registered once and *)
(* another not at all.                                                      *)
C1_Witness ==
    \E t \in Threads :
        /\ Done(t, "publish")
        /\ \E e1, e2 \in Endpoints :
              /\ Entries(pre[t].subscriptions, op[t].topic, e1) = 1
              /\ Entries(pre[t].subscriptions, op[t].topic, e2) = 0
              /\ Count(messageQueue[e1], msg[t]) = 1

(* A message of a topic's history whose publish has returned. *)
Completed(m) == \A t \in Threads : msg[t] # m

AllMessages ==
    UNION {{messageHistory[T][i] : i \in 1..Len(messageHistory[T])} :
              T \in DOMAIN messageHistory}

(* C2: once publish(T, msg) has returned, no step puts msg into any        *)
(* endpoint's queue, so an endpoint that subscribes to T afterwards never  *)
(* receives msg, whatever operations follow.                               *)
C2_NoRetroactiveDelivery ==
    [][\A m \in AllMessages :
          Completed(m) =>
              \A e \in Endpoints :
                  Count(messageQueue'[e], m) = Count(messageQueue[e], m)]_vars

(* An endpoint subscribed to a topic after a first publish has received a  *)
(* later message of that topic and not the first.                          *)
C2_Witness ==
    \E T \in DOMAIN messageHistory, e \in Endpoints :
        /\ Len(messageHistory[T]) = 2
        /\ Completed(messageHistory[T][1])
        /\ Entries(subscriptions, T, e) > 0
        /\ Count(messageQueue[e], messageHistory[T][1]) = 0
        /\ Count(messageQueue[e], messageHistory[T][2]) = 1

(* C3: when unsubscribe(T, id) is over no entry of T's list has that id,   *)
(* however many there were; entries with an id appear only by a subscribe  *)
(* of an endpoint with that id to T; and a queue grows only by a publish   *)
(* to a topic whose list then holds the endpoint.                          *)
C3_UnsubscribeComplete ==
    /\ [](\A t \in Threads :
             Done(t, "unsubscribe") =>
                 EntriesWithId(subscriptions, op[t].topic, op[t].subscriberId) = 0)
    /\ [][\A T \in Topics, e \in Endpoints :
             Entries(subscriptions', T, e) > Entries(subscriptions, T, e) =>
                 \E t \in Threads :
                     /\ pc[t] = "lock"
                     /\ Done(t, "subscribe")'
                     /\ op'[t].topic = T
                     /\ op'[t].subscriber = e]_vars
    /\ [][\A e \in Endpoints :
             messageQueue'[e] # messageQueue[e] =>
                 \E t \in Threads :
                     /\ pc[t] = "recv_push"
                     /\ op[t].name = "publish"
                     /\ Entries(subscriptions, op[t].topic, e) > 0
                     /\ messageQueue'[e] = Append(messageQueue[e], msg[t])]_vars

(* An unsubscribe is over that found the id twice in the topic's list. *)
C3_Witness ==
    \E t \in Threads :
        /\ Done(t, "unsubscribe")
        /\ EntriesWithId(pre[t].subscriptions, op[t].topic, op[t].subscriberId) = 2

(* The last n elements of s, oldest first. *)
LastN(s, n) == [i \in 1..n |-> s[Len(s) - n + i]]

(* The messages of s are in the order in which they were constructed. *)
InPublishOrder(s) == \A i, j \in 1..Len(s) : i < j => s[i].uid < s[j].uid

(* C4: for every topic and every limit k >= 0, getHistory returns the last *)
(* min(k, total) messages of the topic's history, oldest first, total      *)
(* being the number of messages published to the topic; for a topic never  *)
(* published to that is the empty sequence.                                *)
C4_GetHistoryResult ==
    \A t \in Threads :
        (Done(t, "getHistory") /\ op[t].limit >= 0) =>
            LET all == ListOf(messageHistory, op[t].topic)
                total == Cardinality({m \in AllMessages : m.topic = op[t].topic})
            IN  /\ Len(all) = total
                /\ InPublishOrder(all)
                /\ ret[t] = Returned(LastN(all, Min(op[t].limit, total)))

(* A getHistory with limit 1 is over on a topic that holds two messages. *)
C4_Witness ==
    \E t \in Threads :
        /\ Done(t, "getHistory")
        /\ op[t].limit = 1
        /\ Len(ListOf(messageHistory, op[t].topic)) = 2
        /\ ret[t] = Returned(<<messageHistory[op[t].topic][2]>>)

(* C5 as stated: for every topic and every limit <= 0, getHistory returns  *)
(* an empty sequence, completes normally and leaves the broker state as it *)
(* found it.                                                                *)
C5_NonPositiveLimitEmpty ==
    \A t \in Threads :
        (Done(t, "getHistory") /\ op[t].limit <= 0) =>
            /\ ret[t] = Returned(<<>>)
            /\ subscriptions = pre[t].subscriptions
            /\ messageHistory = pre[t].messageHistory

(* C6: a publish on a topic with no registered subscriber (no list, or an  *)
(* empty one) appends exactly its message to the topic's history, leaves   *)
(* the other histories alone and changes no endpoint queue.                *)
C6_HistoryWithoutSubscribers ==
    \A t \in Threads :
        (Done(t, "publish") /\ ListOf(pre[t].subscriptions, op[t].topic) = <<>>) =>
            /\ Found(messageHistory, op[t].topic)
            /\ messageHistory[op[t].topic] =
                   Append(ListOf(pre[t].messageHistory, op[t].topic), msg[t])
            /\ \A T \in Topics \ {op[t].topic} :
                   /\ Found(messageHistory, T) = Found(pre[t].messageHistory, T)
                   /\ ListOf(messageHistory, T) = ListOf(pre[t].messageHistory, T)
            /\ messageQueue = pre[t].messageQueue
            /\ ret[t] = [status |-> "ok", notified |-> 0]

(* A publish is over on a topic whose subscribers had all unsubscribed,    *)
(* while another topic has a subscriber.                                   *)
C6_Witness ==
    \E t \in Threads :
        /\ Done(t, "publish")
        /\ Found(pre[t].subscriptions, op[t].topic)
        /\ pre[t].subscriptions[op[t].topic] = <<>>
        /\ \E T \in Topics : Len(ListOf(subscriptions, T)) > 0

(* Thread t is executing the body of a broker operation. *)
InBroker(t) ==
    pc[t] \in {"pub_store", "recv_lock", "recv_push", "recv_unlock", "unlock"}

(* C7: at most one thread is inside the body of a broker operation, the    *)
(* thread inside holds the broker lock until it returns, and the lock is   *)
(* free whenever no operation is in progress, whichever path the last one  *)
(* left by.                                                                 *)
C7_MutualExclusion ==
    /\ Cardinality({t \in Threads : InBroker(t)}) <= 1
    /\ \A t \in Threads : InBroker(t) => brokerMutex = t
    /\ (\A t \in Threads : ~InBroker(t)) => brokerMutex = NoThread

(* A getHistory on a topic without history is about to return while the    *)
(* other thread waits for the broker lock.                                 *)
C7_Witness ==
    \E t, u \in Threads :
        /\ Done(t, "getHistory")
        /\ ~Found(messageHistory, op[t].topic)
        /\ pc[u] = "lock"

(* The state a broker operation leaves when it runs alone from state s:    *)
(* call c, with m the message it constructs when it is a publish.          *)
Sequential(s, c, m) ==
    CASE c.name = "publish" ->
            [s EXCEPT !.messageHistory =
                          IF c.topic \in DOMAIN @
                          THEN [@ EXCEPT ![c.topic] = @ \o <<m>>]
                          ELSE @ @@ (c.topic :> <<m>>),
                      !.messageQueue =
                          [e \in Endpoints |->
                              @[e] \o Copies(m, Entries(s.subscriptions, c.topic, e))]]
      [] c.name = "subscribe" ->
            [s EXCEPT !.subscriptions =
                          IF c.topic \in DOMAIN @
                          THEN [@ EXCEPT ![c.topic] = @ \o <<c.subscriber>>]
                          ELSE @ @@ (c.topic :> <<c.subscriber>>)]
      [] c.name = "unsubscribe" ->
            [s EXCEPT !.subscriptions =
                          IF c.topic \in DOMAIN @
                          THEN [@ EXCEPT ![c.topic] =
                                   LET Other(e) == getId(e) # c.subscriberId
                                   IN  SelectSeq(@, Other)]
                          ELSE @]
      [] OTHER -> s

(* C8: with publishers, subscribers and unsubscribers running concurrently, *)
(* every broker operation that is over has left the registry, the          *)
(* histories and the queues as a run of it alone would have, from the      *)
(* state it found when it took the lock: a publish delivers to exactly the *)
(* list of that one instant, and the operations take effect one after      *)
(* another in the order of their lock acquisitions.                        *)
C8_AtomicPublish ==
    \A t \in Threads :
        pc[t] = "unlock" =>
            Snapshot = Sequential(pre[t], op[t], msg[t])

(* A publish has delivered to a list of two entries while the other thread *)
(* is waiting for the broker lock.                                         *)
C8_Witness ==
    \E t, u \in Threads :
        /\ Done(t, "publish")
        /\ Len(ListOf(pre[t].subscriptions, op[t].topic)) = 2
        /\ pc[u] = "lock"

(* C9: no step removes, reorders or alters an entry of a topic's history;  *)
(* a history changes only by the append of the message of a publish to     *)
(* that topic, once per publish, and its messages are in the order in      *)
(* which their publishes took the broker lock.                             *)
C9_AppendOnly ==
    /\ [](\A T \in DOMAIN messageHistory : InPublishOrder(messageHistory[T]))
    /\ [](\A t \in Threads :
             Done(t, "publish") =>
                 Len(ListOf(messageHistory, op[t].topic)) =
                     Len(ListOf(pre[t].messageHistory, op[t].topic)) + 1)
    /\ [][\A T \in Topics :
             /\ Found(messageHistory, T) => Found(messageHistory', T)
             /\ IsPrefix(ListOf(messageHistory, T), ListOf(messageHistory', T))
             /\ ListOf(messageHistory', T) # ListOf(messageHistory, T) =>
                    \E t \in Threads :
                        /\ pc[t] = "pub_store"
                        /\ op[t].topic = T
                        /\ messageHistory'[T] =
                               Append(ListOf(messageHistory, T), msg[t])]_vars

(* A topic's history holds two messages. *)
C9_Witness ==
    \E T \in DOMAIN messageHistory :
        /\ Len(messageHistory[T]) = 2
        /\ messageHistory[T][1] # messageHistory[T][2]

(* C10: an unsubscribe that finds no list for the topic, or no entry with  *)
(* the id in it, leaves the registry with its topics and lists, every      *)
(* history and every queue as it found them, and completes without error.  *)
C10_UnsubscribeNoOp ==
    \A t \in Threads :
        (/\ Done(t, "unsubscribe")
         /\ EntriesWithId(pre[t].subscriptions, op[t].topic, op[t].subscriberId) = 0)
            => /\ DOMAIN subscriptions = DOMAIN pre[t].subscriptions
               /\ subscriptions = pre[t].subscriptions
               /\ messageHistory = pre[t].messageHistory
               /\ messageQueue = pre[t].messageQueue
               /\ ret[t] = [status |-> "ok"]

(* An unsubscribe is over on a topic that has no registry entry, while     *)
(* another topic has one.                                                   *)
C10_Witness ==
    \E t \in Threads :
        /\ Done(t, "unsubscribe")
        /\ ~Found(pre[t].subscriptions, op[t].topic)
        /\ DOMAIN pre[t].subscriptions # {}

------------------------------------------------------------------------------
(* C11: the subscriber list is not deduplicated.  Every subscribe(T, e)     *)
(* appends one entry for e to T's list, also when e already has one; a      *)
(* publish to T made while e has two entries appends two copies of the      *)
(* message to e's queue; one unsubscribe(T, id of e) leaves no entry of e.  *)
C11_DuplicateSubscription ==
    \A t \in Threads :
        /\ Done(t, "subscribe") =>
               /\ ListOf(subscriptions, op[t].topic) =
                      Append(ListOf(pre[t].subscriptions, op[t].topic),
                             op[t].subscriber)
               /\ Entries(subscriptions, op[t].topic, op[t].subscriber) =
                      Entries(pre[t].subscriptions, op[t].topic,
                              op[t].subscriber) + 1
        /\ Done(t, "publish") =>
               \A e \in Endpoints :
                   Entries(pre[t].subscriptions, op[t].topic, e) = 2 =>
                       messageQueue[e] =
                           pre[t].messageQueue[e] \o <<msg[t], msg[t]>>
        /\ Done(t, "unsubscribe") =>
               \A e \in Endpoints :
                   /\ getId(e) = op[t].subscriberId
                   /\ Entries(pre[t].subscriptions, op[t].topic, e) = 2
                   => Entries(subscriptions, op[t].topic, e) = 0

(* An endpoint subscribed twice got two copies of one message and is then  *)
(* removed by one unsubscribe.                                             *)
C11_Witness ==
    \E t \in Threads, e \in Endpoints :
        /\ Done(t, "unsubscribe")
        /\ getId(e) = op[t].subscriberId
        /\ Entries(pre[t].subscriptions, op[t].topic, e) = 2
        /\ Entries(subscriptions, op[t].topic, e) = 0
        /\ \E m \in AllMessages :
              /\ m.topic = op[t].topic
              /\ Count(messageQueue[e], m) = 2

------------------------------------------------------------------------------
(* The positions of s whose endpoint does not have the id. *)
KeptPositions(s, id) == {i \in 1..Len(s) : getId(s[i]) # id}

(* s2 is s without the entries of the id, the others in their order. *)
IsStableRemoval(s, id, s2) ==
    /\ Len(s2) = Cardinality(KeptPositions(s, id))
    /\ \A i \in KeptPositions(s, id) :
          s2[Cardinality({j \in KeptPositions(s, id) : j <= i})] = s[i]

(* The list a publish iterates: the topic's list when it took the lock. *)
Iterated(t) == ListOf(pre[t].subscriptions, op[t].topic)

(* The entries of its list a publish has delivered to so far. *)
DeliveredEntries(t) ==
    CASE pc[t] \in {"recv_lock", "recv_push"} -> SubSeq(Iterated(t), 1, idx[t] - 1)
      [] pc[t] = "recv_unlock" -> SubSeq(Iterated(t), 1, idx[t])
      [] OTHER -> Iterated(t)

(* C12: a topic's subscriber list changes only by a subscribe, which puts   *)
(* its endpoint at the end, and by an unsubscribe, which takes out the      *)
(* entries of its id and keeps the others in their order, so the list is    *)
(* the subscribe calls in call order without the unsubscribed ones; and a   *)
(* publish delivers along that list from the front: at every instant the    *)
(* entries it has delivered to are a prefix of the list, so an endpoint     *)
(* registered earlier gets the message before one registered later.         *)
C12_RegistrationOrder ==
    /\ [][\A T \in Topics :
             ListOf(subscriptions', T) # ListOf(subscriptions, T) =>
                 \E t \in Threads :
                     /\ pc[t] = "lock"
                     /\ \/ /\ Done(t, "subscribe")'
                           /\ op'[t].topic = T
                           /\ ListOf(subscriptions', T) =
                                  Append(ListOf(subscriptions, T), op'[t].subscriber)
                        \/ /\ Done(t, "unsubscribe")'
                           /\ op'[t].topic = T
                           /\ IsStableRemoval(ListOf(subscriptions, T),
                                              op'[t].subscriberId,
                                              ListOf(subscriptions', T))]_vars
    /\ [](\A t \in Threads :
             op[t].name = "publish" /\ pc[t] # "pub_store" =>
                 /\ Iterated(t) = ListOf(subscriptions, op[t].topic)
                 /\ \A e \in Endpoints :
                       messageQueue[e] =
                           pre[t].messageQueue[e] \o
                               Copies(msg[t], Count(DeliveredEntries(t), e)))

(* After three subscribes and an unsubscribe a topic's list has two         *)
(* different endpoints left, and a publish has delivered to the first and   *)
(* not yet to the second.                                                   *)
C12_Witness ==
    \E t \in Threads :
        /\ pc[t] = "recv_lock"
        /\ idx[t] = 2
        /\ nSub = 3
        /\ Len(Iterated(t)) = 2
        /\ \A T \in Topics : T # op[t].topic => Len(ListOf(subscriptions, T)) = 0
        /\ Iterated(t)[1] # Iterated(t)[2]
        /\ Count(messageQueue[Iterated(t)[1]], msg[t]) = 1
        /\ Count(messageQueue[Iterated(t)[2]], msg[t]) = 0

------------------------------------------------------------------------------
(* Thread t is at the end of a getHistory that follows, with no publish to  *)
(* the topic in between, a getHistory of its own with the same arguments.   *)
RepeatedRead(t) ==
    /\ Done(t, "getHistory")
    /\ lastRead[t].kind = "read"
    /\ lastRead[t].topic = op[t].topic
    /\ lastRead[t].limit = op[t].limit

(* C13 as stated: two consecutive getHistory(T, k) calls of a thread with   *)
(* no publish to T taking effect between them both return, and return the   *)
(* same sequence, whatever the other thread does in between.                *)
C13_IdempotentRead ==
    \A t \in Threads :
        RepeatedRead(t) =>
            /\ lastRead[t].result.status = "ok"
            /\ ret[t].status = "ok"
            /\ ret[t].value = lastRead[t].result.value

(* The same for limits that are not negative. *)
IdempotentReadFromZero ==
    \A t \in Threads :
        RepeatedRead(t) /\ op[t].limit >= 0 =>
            /\ lastRead[t].result.status = "ok"
            /\ ret[t].status = "ok"
            /\ ret[t].value = lastRead[t].result.value

RepeatedReadSeen ==
    \E t \in Threads :
        RepeatedRead(t) /\ op[t].limit > 0 /\ Len(ret[t].value) > 0

------------------------------------------------------------------------------
(* C14: a subscribe(T, e) leaves T a key of the registry, no step takes a   *)
(* key out of the registry (an unsubscribe that removes the last entry      *)
(* leaves the key, mapped to the empty list), and the topic count that      *)
(* printStats reports is the number of keys, which no step decreases.       *)
C14_RegistryKeysPersist ==
    /\ [](\A t \in Threads :
             /\ Done(t, "subscribe") => Found(subscriptions, op[t].topic)
             /\ Done(t, "unsubscribe") =>
                    /\ DOMAIN subscriptions = DOMAIN pre[t].subscriptions
                    /\ Found(subscriptions, op[t].topic) =>
                           EntriesWithId(subscriptions, op[t].topic,
                                         op[t].subscriberId) = 0
             /\ Done(t, "printStats") =>
                    /\ ret[t].topics = Cardinality(DOMAIN subscriptions)
                    /\ DOMAIN ret[t].sizes = DOMAIN subscriptions)
    /\ [][/\ DOMAIN subscriptions \subseteq DOMAIN subscriptions'
          /\ Cardinality(DOMAIN subscriptions') >= Cardinality(DOMAIN subscriptions)]_vars

(* printStats reports one topic, whose list an unsubscribe has emptied. *)
C14_Witness ==
    \E t \in Threads :
        /\ Done(t, "printStats")
        /\ nSub > 0
        /\ ret[t].topics = 1
        /\ \A T \in DOMAIN subscriptions : ret[t].sizes[T] = 0

------------------------------------------------------------------------------
(* Thread t is inside a receiveMessage call: waiting for the endpoint's     *)
(* queue lock, appending, or about to return.                               *)
InReceive(t) == pc[t] \in {"recv_lock", "recv_push", "recv_unlock"}

(* C15: at most one thread is inside receiveMessage at any instant, on any  *)
(* endpoint, and that thread holds the broker lock.  The exclusion does not *)
(* come from the endpoint's queue lock: it covers the thread that has       *)
(* entered receiveMessage and does not hold the queue lock yet.             *)
C15_NoOverlappingDeliveries ==
    /\ Cardinality({t \in Threads : InReceive(t)}) <= 1
    /\ \A t \in Threads :
          InReceive(t) =>
              /\ brokerMutex = t
              /\ op[t].name = "publish"
              /\ \A u \in Threads \ {t} : ~InBroker(u)

(* A thread is inside receiveMessage without the endpoint's queue lock,    *)
(* which the getQueueSize of the other thread holds.                        *)
C15_Witness ==
    \E t, u \in Threads :
        /\ pc[t] = "recv_lock"
        /\ pc[u] = "qs_unlock"
        /\ queueMutex[Target(t)] = u

------------------------------------------------------------------------------
(* Thread t holds endpoint e's queue lock inside receiveMessage. *)
Appending(t, e) ==
    /\ pc[t] \in {"recv_push", "recv_unlock"}
    /\ Target(t) = e

(* C16: an endpoint's queue changes only by the append of a receiveMessage  *)
(* on it, made with its queue lock held, which makes it longer by exactly   *)
(* one message and keeps what was queued; so its length is the number of    *)
(* appends completed on it.  A getQueueSize returns that length as it is    *)
(* while it holds the queue lock, when no receiveMessage on the endpoint is *)
(* between taking the lock and returning.                                   *)
C16_QueueSizeConsistency ==
    /\ [][\A e \in Endpoints :
             messageQueue'[e] # messageQueue[e] =>
                 /\ \E t \in Threads :
                       /\ pc[t] = "recv_push"
                       /\ pc'[t] = "recv_unlock"
                       /\ Target(t) = e
                       /\ queueMutex[e] = t
                 /\ Len(messageQueue'[e]) = Len(messageQueue[e]) + 1
                 /\ SubSeq(messageQueue'[e], 1, Len(messageQueue[e])) =
                        messageQueue[e]]_vars
    /\ [](\A t \in Threads :
             pc[t] = "qs_unlock" =>
                 /\ ret[t] = Returned(Len(messageQueue[op[t].subscriber]))
                 /\ queueMutex[op[t].subscriber] = t
                 /\ \A u \in Threads : ~Appending(u, op[t].subscriber))

(* A getQueueSize has read 1 on an endpoint whose second delivery has       *)
(* started and waits for the queue lock.                                    *)
C16_Witness ==
    \E t, u \in Threads :
        /\ pc[t] = "qs_unlock"
        /\ ret[t] = Returned(1)
        /\ pc[u] = "recv_lock"
        /\ Target(u) = op[t].subscriber
        /\ Count(messageQueue[op[t].subscriber], msg[u]) = 0

------------------------------------------------------------------------------
(* Thread t waits for a lock. *)
Waiting(t) == pc[t] \in {"lock", "recv_lock", "qs_lock"}

(* The locks are taken in one order: a thread that waits for the broker     *)
(* lock holds no lock, a thread that holds a queue lock waits for nothing,  *)
(* and the only thread that waits while it holds a lock holds the broker    *)
(* lock and waits for a queue lock.                                         *)
LockOrder ==
    \A t \in Threads :
        /\ pc[t] \in {"lock", "qs_lock"} =>
               /\ brokerMutex # t
               /\ \A e \in Endpoints : queueMutex[e] # t
        /\ \A e \in Endpoints : queueMutex[e] = t => ~Waiting(t)
        /\ pc[t] = "recv_lock" => brokerMutex = t

------------------------------------------------------------------------------
(* Mapping m2 is mapping m except perhaps at key T. *)
SameExceptAt(m, m2, T) ==
    \A k \in (DOMAIN m \cup DOMAIN m2) \ {T} :
        /\ k \in DOMAIN m
        /\ k \in DOMAIN m2
        /\ m2[k] = m[k]

(* C18: every step leaves alone what its operation is not about.  The       *)
(* registry changes only in a subscribe or an unsubscribe, and then only at *)
(* the topic of the call; the histories change only in a publish, and then  *)
(* only at the topic of the message; the queues change only in a publish.   *)
(* So subscribe and unsubscribe change no history and no queue, publish     *)
(* creates no registry entry, and getHistory, printStats and getQueueSize   *)
(* change nothing: a getHistory on a topic never published to creates no    *)
(* history entry.                                                           *)
C18_Frame ==
    /\ [][subscriptions' # subscriptions =>
             \E t \in Threads :
                 /\ pc[t] = "lock"
                 /\ op'[t].name \in {"subscribe", "unsubscribe"}
                 /\ SameExceptAt(subscriptions, subscriptions', op'[t].topic)
                 /\ messageHistory' = messageHistory
                 /\ messageQueue' = messageQueue]_vars
    /\ [][messageHistory' # messageHistory =>
             \E t \in Threads :
                 /\ pc[t] = "pub_store"
                 /\ op[t].name = "publish"
                 /\ SameExceptAt(messageHistory, messageHistory', op[t].topic)
                 /\ subscriptions' = subscriptions
                 /\ messageQueue' = messageQueue]_vars
    /\ [][messageQueue' # messageQueue =>
             \E t \in Threads :
                 /\ pc[t] = "recv_push"
                 /\ op[t].name = "publish"
                 /\ subscriptions' = subscriptions
                 /\ messageHistory' = messageHistory]_vars
    /\ [](\A t \in Threads :
             /\ Done(t, "publish") => subscriptions = pre[t].subscriptions
             /\ Done(t, "getHistory") \/ Done(t, "printStats") =>
                    Snapshot = [pre[t] EXCEPT !.taken = TRUE])

(* A getHistory is over on a topic that was never published or subscribed   *)
(* to, after a publish to another topic that has a history and no registry  *)
(* entry.                                                                   *)
C18_Witness ==
    \E t \in Threads :
        /\ Done(t, "getHistory")
        /\ ~Found(messageHistory, op[t].topic)
        /\ ~Found(subscriptions, op[t].topic)
        /\ \E T \in Topics :
              /\ Found(messageHistory, T)
              /\ ~Found(subscriptions, T)

------------------------------------------------------------------------------
(* The positions of message m in sequence s. *)
Positions(s, m) == {i \in 1..Len(s) : s[i] = m}

(* Message a is somewhere before message b in sequence s. *)
Before(s, a, b) == \E i \in Positions(s, a), j \in Positions(s, b) : i < j

(* C19: every message in an endpoint's queue is in the history of its       *)
(* topic; two different messages of one topic are in a queue in the order   *)
(* they have in the history; so no two endpoints hold two messages of a     *)
(* topic in opposite orders.                                                *)
C19_QueuesAgreeWithHistory ==
    /\ \A e \in Endpoints : \A i \in 1..Len(messageQueue[e]) :
          /\ Found(messageHistory, messageQueue[e][i].topic)
          /\ Positions(messageHistory[messageQueue[e][i].topic],
                       messageQueue[e][i]) # {}
    /\ \A T \in DOMAIN messageHistory : \A i, j \in 1..Len(messageHistory[T]) :
          i < j =>
              /\ messageHistory[T][i] # messageHistory[T][j]
              /\ \A e \in Endpoints :
                    ~Before(messageQueue[e], messageHistory[T][j], messageHistory[T][i])
              /\ \A e1, e2 \in Endpoints :
                    ~(/\ Before(messageQueue[e1], messageHistory[T][i], messageHistory[T][j])
                      /\ Before(messageQueue[e2], messageHistory[T][j], messageHistory[T][i]))

(* Two endpoints hold the same two messages of one topic, in the same      *)
(* order.                                                                   *)
C19_Witness ==
    \E e1, e2 \in Endpoints : \E a, b \in AllMessages :
        /\ e1 # e2
        /\ a # b
        /\ a.topic = b.topic
        /\ Before(messageQueue[e1], a, b)
        /\ Before(messageQueue[e2], a, b)

------------------------------------------------------------------------------
(* C20: with clock readings that never decrease, the timestamps of every    *)
(* topic's history never decrease along the history, whichever threads      *)
(* published: a message gets its timestamp while its publisher holds the    *)
(* broker lock, and no later reading than the clock's last one.             *)
C20_MonotoneTimestamps ==
    /\ \A T \in DOMAIN messageHistory :
          \A i, j \in 1..Len(messageHistory[T]) :
              i < j => messageHistory[T][i].timestamp <= messageHistory[T][j].timestamp
    /\ \A t \in Threads :
          msg[t] # NoMsg =>
              /\ brokerMutex = t
              /\ msg[t].timestamp = now

(* A topic's history holds two messages with one timestamp and a third     *)
(* with a later one, while the other thread waits for the broker lock.      *)
C20_Witness ==
    \E T \in DOMAIN messageHistory, u \in Threads :
        /\ Len(messageHistory[T]) = 3
        /\ messageHistory[T][1].timestamp = messageHistory[T][2].timestamp
        /\ messageHistory[T][2].timestamp < messageHistory[T][3].timestamp
        /\ pc[u] = "lock"

=============================================================================
